---- MODULE Spec2Model ----
(***************************************************************************)
(* Huffman coding pipeline of src/main.rs:                                 *)
(*   frequency -> huffman (BinaryHeap merge loop) -> codebook (traverse)   *)
(*   -> encode (flat_map over the message) -> decode (prefix matching).    *)
(*                                                                         *)
(* A char is a small natural number (the order of the numbers is the key   *)
(* order of the BTreeMaps); a bit is a BOOLEAN (true = 1, false = 0); a    *)
(* BitVec and a String are sequences; a BTreeMap is a function whose       *)
(* DOMAIN is its key set; an Option is a sequence of length 0 or 1.        *)
(* Counts stay far below 2^32 within the bounds, so u32 addition is plain  *)
(* addition here.                                                          *)
(***************************************************************************)
EXTENDS Integers, Sequences, FiniteSets, TLC

VARIABLES
    call,       \* which entry point runs: "main", "huffman" or "decode"
    pc,         \* position in the running function
    message,    \* encode's argument
    iter,       \* frequency's iterator: the symbols not yet folded
    frequency,  \* the BTreeMap<char, u32> being built / handed to huffman
    heap,       \* huffman's BinaryHeap<HuffTree>
    hufftree,   \* huffman's return value (Option<HuffTree>)
    encoded,    \* encode's return value (Option<(Codebook, BitVec)>)
    cb,         \* the codebook: encode's local, decode's first argument
    cs,         \* the encoded bits: encode's `bits`, decode's argument as passed
    bits,       \* decode's `bits` slice: what is left to decode
    decoded,    \* decode's `decoded` string
    outcome     \* "running", "returned" or "panicked"

vars == <<call, pc, message, iter, frequency, heap, hufftree, encoded,
          cb, cs, bits, decoded, outcome>>

----------------------------------------------------------------------------
(* Bounds of the model *)

\* number of distinct chars a message or a frequency table may use
NumChars == 3
\* longest message handed to encode
MaxLen == 5
\* largest count in a frequency table handed to huffman directly
MaxOcc == 3
\* number of distinct chars in a codebook handed to decode directly
DecChars == 2
\* longest code in a codebook handed to decode directly
MaxCodeLen == 1
\* longest bit sequence handed to decode directly
MaxBits == 3
\* decode's loop is followed until `decoded` holds this many chars
MaxDecoded == 7
\* longest code of the alternative prefix-free codes Huffman's is compared to
MaxAltLen == 2

Chars == 1 .. NumChars

SeqsUpTo(S, n) == UNION {[1 .. k -> S] : k \in 0 .. n}

Messages == SeqsUpTo(Chars, MaxLen)

BitVecs(n) == SeqsUpTo(BOOLEAN, n)

Tables == UNION {[S -> 0 .. MaxOcc] : S \in SUBSET Chars}

Codebooks == UNION {[S -> BitVecs(MaxCodeLen)] : S \in SUBSET (1 .. DecChars)}

----------------------------------------------------------------------------
(* Option and BTreeMap *)

None == <<>>

Some(v) == <<v>>

EmptyMap == <<>>

\* BTreeMap::append: the entries of `other` are moved into `self`; on a key
\* both hold, the value of `other` wins.
btm_append(self, other) ==
    [k \in DOMAIN self \cup DOMAIN other |->
        IF k \in DOMAIN other THEN other[k] ELSE self[k]]

\* slice::starts_with
starts_with(s, needle) ==
    /\ Len(needle) <= Len(s)
    /\ SubSeq(s, 1, Len(needle)) = needle

----------------------------------------------------------------------------
(* HuffTree *)

\* HuffTree::new
new(chr, occ) == [occ |-> occ, chr |-> chr]

\* a merge that boxes `self` on both sides and drops `other`
merge_self_twice(self, other) == [left |-> self, right |-> self]

\* HuffTree::merge
merge(self, other) == [left |-> self, right |-> other]

IsLeaf(t) == "chr" \in DOMAIN t

RECURSIVE lettercount(_)
\* HuffTree::lettercount
lettercount(t) ==
    IF IsLeaf(t) THEN t.occ
    ELSE lettercount(t.left) + lettercount(t.right)

\* the ordering without the .reverse(): the heap would pop the heaviest tree
cmp_not_reversed(self, other) ==
    IF lettercount(self) < lettercount(other) THEN "Less"
    ELSE IF lettercount(self) > lettercount(other) THEN "Greater"
    ELSE "Equal"

\* impl Ord for HuffTree: the order of the lettercounts, reversed
cmp(self, other) ==
    IF lettercount(self) < lettercount(other) THEN "Greater"
    ELSE IF lettercount(self) > lettercount(other) THEN "Less"
    ELSE "Equal"

\* BinaryHeap::pop returns a greatest element of the heap; which one among
\* equal elements is left to the heap's layout, so any of them may come out.
IsGreatest(t, h) == t \in h /\ \A u \in h : cmp(u, t) # "Greater"

----------------------------------------------------------------------------
(* frequency *)

\* the fold's closure with `= 1` for `+= 1`: a repeated symbol is not counted
count_reset(map, element) ==
    IF element \in DOMAIN map THEN [map EXCEPT ![element] = 1]
    ELSE (element :> 1) @@ map

\* the fold's closure: *map.entry(element).or_default() += 1
count(map, element) ==
    IF element \in DOMAIN map THEN [map EXCEPT ![element] = @ + 1]
    ELSE (element :> 0 + 1) @@ map

\* one step of iter.fold(BTreeMap::new(), ...)
FrequencyFold ==
    /\ pc = "frequency"
    /\ iter # <<>>
    /\ frequency' = count(frequency, Head(iter))
    /\ iter' = Tail(iter)
    /\ UNCHANGED <<call, pc, message, heap, hufftree, encoded, cb, cs, bits,
                   decoded, outcome>>

\* the iterator is exhausted: fold returns the map, encode calls huffman
FrequencyReturn ==
    /\ pc = "frequency"
    /\ iter = <<>>
    /\ pc' = "huffman"
    /\ UNCHANGED <<call, message, iter, frequency, heap, hufftree, encoded,
                   cb, cs, bits, decoded, outcome>>

----------------------------------------------------------------------------
(* huffman *)

\* frequency.into_iter().map(|(chr, occ)| HuffTree::new(chr, occ)).collect()
HuffmanCollect ==
    /\ pc = "huffman"
    /\ heap' = {new(chr, frequency[chr]) : chr \in DOMAIN frequency}
    /\ pc' = "loop"
    /\ UNCHANGED <<call, message, iter, frequency, hufftree, encoded, cb, cs,
                   bits, decoded, outcome>>

\* match arm (Some(first), Some(second)) => heap.push(first.merge(second))
HuffmanMerge ==
    /\ pc = "loop"
    /\ \E first \in heap :
         /\ IsGreatest(first, heap)
         /\ \E second \in heap \ {first} :
              /\ IsGreatest(second, heap \ {first})
              /\ heap' = (heap \ {first, second}) \cup {merge(first, second)}
    /\ UNCHANGED <<call, pc, message, iter, frequency, hufftree, encoded, cb,
                   cs, bits, decoded, outcome>>

\* a break that hands back the second pop, which is None in this arm
break_second(h) == None

\* match arm (first, _) => break first: the second pop found nothing, so the
\* first pop is the whole heap (Some) or nothing (None)
break_first(h) == IF h = {} THEN None ELSE Some(CHOOSE t \in h : TRUE)

HuffmanBreak ==
    /\ pc = "loop"
    /\ Cardinality(heap) <= 1
    /\ hufftree' = break_first(heap)
    /\ heap' = {}
    /\ pc' = "huffman_returned"
    /\ UNCHANGED <<call, message, iter, frequency, encoded, cb, cs, bits,
                   decoded, outcome>>

----------------------------------------------------------------------------
(* codebook *)

\* bv.push(true) on the left branch as well: both children get the same path
LeftBitSet == TRUE

\* bv.push(false): the bit of the left branch
LeftBit == FALSE

\* br.push(true): the bit of the right branch
RightBit == TRUE

RECURSIVE traverse(_, _)
\* codebook's inner fn traverse
traverse(huff, bv) ==
    IF IsLeaf(huff) THEN (huff.chr :> bv)
    ELSE LET br == Append(bv, RightBit)
             bl == Append(bv, LeftBit)
         IN  btm_append(traverse(huff.left, bl), traverse(huff.right, br))

\* a traversal started with a one-bit path: no code is ever empty
codebook_one_bit(huff) == traverse(huff, <<FALSE>>)

\* fn codebook: traverse(huff, BitVec::new())
codebook(huff) == traverse(huff, <<>>)

----------------------------------------------------------------------------
(* encode *)

\* let hufftree = huffman(frequency)?;  an empty heap ends encode with None
EncodeTry ==
    /\ pc = "huffman_returned"
    /\ IF hufftree = None
       THEN /\ encoded' = None
            /\ pc' = "done"
            /\ outcome' = "returned"
       ELSE /\ pc' = "codebook"
            /\ UNCHANGED <<encoded, outcome>>
    /\ UNCHANGED <<call, message, iter, frequency, heap, hufftree, cb, cs,
                   bits, decoded>>

\* let codebook = codebook(&hufftree);  a direct call of huffman ends here
EncodeCodebook ==
    /\ pc = "codebook"
    /\ cb' = codebook(hufftree[1])
    /\ IF call = "huffman"
       THEN pc' = "done" /\ outcome' = "returned"
       ELSE pc' = "bits" /\ UNCHANGED outcome
    /\ UNCHANGED <<call, message, iter, frequency, heap, hufftree, encoded,
                   cs, bits, decoded>>

RECURSIVE flat_map(_, _)
\* message.chars().flat_map(|c| codebook[&c].clone()).collect()
flat_map(m, codes) ==
    IF m = <<>> THEN <<>>
    ELSE codes[Head(m)] \o flat_map(Tail(m), codes)

\* the flat_map and Some((codebook, bits)); main then calls decode(&cb, &cs).
\* codebook[&c] panics on a symbol the codebook does not hold.
EncodeBits ==
    /\ pc = "bits"
    /\ IF \A i \in 1 .. Len(message) : message[i] \in DOMAIN cb
       THEN /\ cs' = flat_map(message, cb)
            /\ encoded' = Some(<<cb, cs'>>)
            /\ bits' = cs'
            /\ decoded' = <<>>
            /\ pc' = "decode"
            /\ UNCHANGED outcome
       ELSE /\ outcome' = "panicked"
            /\ pc' = "done"
            /\ UNCHANGED <<encoded, cs, bits, decoded>>
    /\ UNCHANGED <<call, message, iter, frequency, heap, hufftree, cb>>

----------------------------------------------------------------------------
(* decode *)

\* the entries whose code the remaining bits start with
Matches(codes, rest) == {chr \in DOMAIN codes : starts_with(rest, codes[chr])}

\* for (chr, code) in codebook { if bits.starts_with(code) { ...; break } }:
\* the first matching entry in key order
first_match(codes, rest) ==
    CHOOSE chr \in Matches(codes, rest) :
        \A other \in Matches(codes, rest) : chr <= other

\* an advance by one bit whatever the code's length
advance_one(rest, code) == Tail(rest)

\* bits = &bits[code.len()..]
advance(rest, code) == SubSeq(rest, Len(code) + 1, Len(rest))

\* one pass of the while loop that finds an entry
DecodeMatch ==
    /\ pc = "decode"
    /\ bits # <<>>
    /\ Matches(cb, bits) # {}
    /\ Len(decoded) < MaxDecoded
    /\ LET chr == first_match(cb, bits)
       IN  /\ decoded' = Append(decoded, chr)
           /\ bits' = advance(bits, cb[chr])
    /\ UNCHANGED <<call, pc, message, iter, frequency, heap, hufftree,
                   encoded, cb, cs, outcome>>

\* one pass of the while loop that finds none: panic!("No entry in code")
DecodePanic ==
    /\ pc = "decode"
    /\ bits # <<>>
    /\ Matches(cb, bits) = {}
    /\ outcome' = "panicked"
    /\ pc' = "done"
    /\ UNCHANGED <<call, message, iter, frequency, heap, hufftree, encoded,
                   cb, cs, bits, decoded>>

\* bits.is_empty(): the loop ends and decode returns `decoded`
DecodeReturn ==
    /\ pc = "decode"
    /\ bits = <<>>
    /\ outcome' = "returned"
    /\ pc' = "done"
    /\ UNCHANGED <<call, message, iter, frequency, heap, hufftree, encoded,
                   cb, cs, bits, decoded>>

----------------------------------------------------------------------------
(* The entry points and the specification *)

\* main (and encode's callers): encode(message), then decode on its result
InitMain ==
    /\ call = "main"
    /\ pc = "frequency"
    /\ message \in Messages
    /\ iter = message
    /\ frequency = EmptyMap
    /\ cb = EmptyMap
    /\ cs = <<>>
    /\ bits = <<>>

\* huffman on any frequency table, codebook on the tree it returns
InitHuffman ==
    /\ call = "huffman"
    /\ pc = "huffman"
    /\ message = <<>>
    /\ iter = <<>>
    /\ frequency \in Tables
    /\ cb = EmptyMap
    /\ cs = <<>>
    /\ bits = <<>>

\* decode on any codebook and any bit sequence
InitDecode ==
    /\ call = "decode"
    /\ pc = "decode"
    /\ message = <<>>
    /\ iter = <<>>
    /\ frequency = EmptyMap
    /\ cb \in Codebooks
    /\ cs \in BitVecs(MaxBits)
    /\ bits = cs

Init ==
    /\ InitMain \/ InitHuffman \/ InitDecode
    /\ heap = {}
    /\ hufftree = None
    /\ encoded = None
    /\ decoded = <<>>
    /\ outcome = "running"

Next ==
    \/ FrequencyFold
    \/ FrequencyReturn
    \/ HuffmanCollect
    \/ HuffmanMerge
    \/ HuffmanBreak
    \/ EncodeTry
    \/ EncodeCodebook
    \/ EncodeBits
    \/ DecodeMatch
    \/ DecodePanic
    \/ DecodeReturn

Spec == Init /\ [][Next]_vars

----------------------------------------------------------------------------
(* Vocabulary of the properties *)

RECURSIVE SumOver(_, _)
\* the sum of f[x] over the x of S
SumOver(f, S) ==
    IF S = {} THEN 0
    ELSE LET x == CHOOSE y \in S : TRUE
         IN  f[x] + SumOver(f, S \ {x})

\* the number of occurrences of symbol c in sequence m
Occurrences(m, c) == Cardinality({i \in 1 .. Len(m) : m[i] = c})

\* the sum of the counts of a frequency table
TableTotal(f) == SumOver(f, DOMAIN f)

\* the sum of the weights of the trees of a heap
HeapWeight(h) == SumOver([t \in h |-> lettercount(t)], h)

RECURSIVE Leaves(_)
\* the leaves of a tree, left to right
Leaves(t) ==
    IF IsLeaf(t) THEN <<t>> ELSE Leaves(t.left) \o Leaves(t.right)

RECURSIVE Subtrees(_)
\* a tree and all the trees below it
Subtrees(t) ==
    IF IsLeaf(t) THEN {t} ELSE {t} \cup Subtrees(t.left) \cup Subtrees(t.right)

\* the sum of the counts of the leaves of a tree
LeafTotal(t) == SumOver([i \in 1 .. Len(Leaves(t)) |-> Leaves(t)[i].occ],
                        1 .. Len(Leaves(t)))

\* no code is a prefix of the code of another symbol
PrefixFree(codes) ==
    \A a \in DOMAIN codes : \A b \in DOMAIN codes :
        a # b => ~starts_with(codes[b], codes[a])

\* total encoded length of a message with table f under code lengths lens
Cost(f, lens) == SumOver([c \in DOMAIN f |-> f[c] * lens[c]], DOMAIN f)

\* the code-length assignments of all prefix-free binary codes, for every
\* set of symbols, with codes of at most MaxAltLen bits
PrefixFreeLengths ==
    UNION {{[c \in S |-> Len(g[c])] :
                g \in {h \in [S -> BitVecs(MaxAltLen)] : PrefixFree(h)}} :
           S \in SUBSET Chars}

\* where message symbol number i starts in the encoded bits
Offset(m, codes, i) ==
    SumOver([j \in 1 .. Len(m) |-> Len(codes[m[j]])], 1 .. (i - 1))

\* huffman has returned to its caller
HuffmanReturned ==
    call # "decode" /\ pc \in {"huffman_returned", "codebook", "bits", "decode", "done"}

\* codebook has returned the codebook of huffman's tree
CodebookDerived ==
    call # "decode" /\ hufftree # None /\ pc \in {"bits", "decode", "done"}

\* encode ended in the panic of codebook[&c]
EncodePanicked ==
    call = "main" /\ pc = "done" /\ outcome = "panicked" /\ encoded = None

\* encode has returned to main
EncodeReturned ==
    call = "main" /\ (pc = "decode" \/ (pc = "done" /\ ~EncodePanicked))

\* decode stopped at a position where no entry matches the remaining bits
DecodeStuck ==
    call # "huffman" /\ pc = "done" /\ bits # <<>> /\ Matches(cb, bits) = {}

----------------------------------------------------------------------------
(* The claims *)

\* C1: round trip. For every non-empty message, one-symbol messages
\* included, decode on encode's codebook and bits returns the message.
C1_RoundTrip ==
    (call = "main" /\ pc = "done" /\ message # <<>>)
        => (outcome = "returned" /\ encoded # None /\ decoded = message)

\* C2: prefix-free codes. In the codebook derived from the tree huffman
\* returns for a non-empty table, no code is a prefix of the code of another
\* symbol (so no two symbols share a code).
C2_PrefixFree ==
    CodebookDerived => PrefixFree(cb)

C2_Witness ==
    /\ CodebookDerived
    /\ call = "huffman"
    /\ Cardinality(DOMAIN cb) >= 3
    /\ \E c \in DOMAIN cb : Len(cb[c]) >= 2

\* C3: decode failure. When decode stops at a position where no entry's code
\* is a prefix of the remaining non-empty bits, its outcome is a typed
\* CodebookMismatch error handed to the caller: not a decoded string, not a
\* panic.
C3_DecodeFailureIsTypedError ==
    DecodeStuck => outcome = "CodebookMismatch"

\* C4: frequency correctness. The map frequency returns has exactly the
\* distinct symbols of the sequence as keys, each with its number of
\* occurrences (never 0), and the counts sum to the length of the sequence.
C4_FrequencyCorrect ==
    (call = "main" /\ pc # "frequency") =>
        /\ DOMAIN frequency = {message[i] : i \in 1 .. Len(message)}
        /\ \A c \in DOMAIN frequency :
              frequency[c] = Occurrences(message, c) /\ frequency[c] > 0
        /\ TableTotal(frequency) = Len(message)

C4_Witness ==
    /\ call = "main"
    /\ pc = "huffman"
    /\ Cardinality(DOMAIN frequency) >= 2
    /\ \E c \in DOMAIN frequency : frequency[c] >= 2

\* C5: single-symbol edge case. For a message of one distinct symbol, huffman
\* returns a single Leaf, the codebook has one entry whose code is empty, and
\* encode returns zero bits.
C5_SingleSymbol ==
    (call # "decode" /\ iter = <<>> /\ Cardinality(DOMAIN frequency) = 1) =>
        /\ HuffmanReturned =>
              /\ hufftree # None
              /\ IsLeaf(hufftree[1])
              /\ \A c \in DOMAIN frequency : hufftree[1] = new(c, frequency[c])
        /\ CodebookDerived =>
              /\ DOMAIN cb = DOMAIN frequency
              /\ \A c \in DOMAIN cb : cb[c] = <<>>
        /\ EncodeReturned =>
              /\ encoded = Some(<<cb, cs>>)
              /\ Len(cs) = 0

C5_Witness ==
    /\ call = "main"
    /\ pc = "done"
    /\ Len(message) >= 2
    /\ Cardinality(DOMAIN frequency) = 1
    /\ encoded # None

\* C6: empty input is an absent result. huffman returns None exactly when the
\* table is empty; encode returns None exactly when the message is empty and
\* never panics on a missing codebook entry for a non-empty message.
C6_EmptyInputIsNone ==
    /\ HuffmanReturned => ((hufftree = None) <=> (DOMAIN frequency = {}))
    /\ EncodeReturned => ((encoded = None) <=> (message = <<>>))
    /\ (call = "main" /\ message # <<>>) => ~EncodePanicked

C6_Witness ==
    /\ EncodeReturned
    /\ pc = "decode"
    /\ encoded # None
    /\ Cardinality(DOMAIN frequency) >= 2

\* C7: weight conservation. Throughout the merge loop the weights of the
\* trees in the heap sum to the total of the table; in the returned tree
\* every internal node weighs what its two children weigh together, the
\* leaves are exactly the table's entries, one per symbol, and the root's
\* weight is the length of the message.
C7_WeightConservation ==
    /\ (call # "decode" /\ pc = "loop") =>
          HeapWeight(heap) = TableTotal(frequency)
    /\ (HuffmanReturned /\ hufftree # None) =>
          LET t == hufftree[1]
          IN  /\ \A n \in Subtrees(t) :
                    ~IsLeaf(n) =>
                        lettercount(n) = LeafTotal(n.left) + LeafTotal(n.right)
              /\ Len(Leaves(t)) = Cardinality(DOMAIN frequency)
              /\ {<<Leaves(t)[i].chr, Leaves(t)[i].occ>> : i \in 1 .. Len(Leaves(t))}
                    = {<<c, frequency[c]>> : c \in DOMAIN frequency}
              /\ lettercount(t) = TableTotal(frequency)
              /\ call = "main" => lettercount(t) = Len(message)

C7_Witness ==
    /\ call = "main"
    /\ pc = "loop"
    /\ Cardinality(heap) = 2
    /\ \E t \in heap : ~IsLeaf(t)

\* C8: optimality. For a table of at least two symbols, the codebook of
\* huffman's tree has the least total encoded length among all prefix-free
\* binary codes for those symbols, and each merge step combines two trees
\* whose weights are the two smallest in the heap.
C8_CodebookOptimal ==
    (CodebookDerived /\ Cardinality(DOMAIN frequency) >= 2) =>
        \A lens \in PrefixFreeLengths :
            DOMAIN lens = DOMAIN frequency =>
                Cost(frequency, [c \in DOMAIN cb |-> Len(cb[c])])
                    <= Cost(frequency, lens)

C8_MergeTakesTwoSmallest ==
    (pc = "loop" /\ heap' # heap /\ pc' = "loop") =>
        \E n \in heap' \ heap :
            /\ ~IsLeaf(n)
            /\ heap \ heap' = {n.left, n.right}
            /\ lettercount(n.left) <= lettercount(n.right)
            /\ \A u \in heap \ {n.left, n.right} :
                  lettercount(n.right) <= lettercount(u)

C8_Optimality == [](C8_CodebookOptimal) /\ [][C8_MergeTakesTwoSmallest]_vars

C8_Witness ==
    /\ CodebookDerived
    /\ Cardinality(DOMAIN frequency) >= 3
    /\ \E c \in DOMAIN frequency : \E d \in DOMAIN frequency :
          frequency[c] < frequency[d] /\ Len(cb[d]) < Len(cb[c])

\* C9: round trip on a real alphabet. For a message of at least two distinct
\* symbols the bits are the codes of its symbols in message order, every code
\* has at least one bit, decode consumes the bits code by code with exactly
\* one entry matching at each position (so the scan order of the entries
\* does not matter), and decode returns the message.
C9_RoundTripTwoSymbols ==
    (EncodeReturned /\ Cardinality(DOMAIN frequency) >= 2) =>
        /\ encoded = Some(<<cb, cs>>)
        /\ \A c \in DOMAIN cb : Len(cb[c]) >= 1
        /\ Len(cs) = Offset(message, cb, Len(message) + 1)
        /\ \A i \in 1 .. Len(message) :
              SubSeq(cs, Offset(message, cb, i) + 1, Offset(message, cb, i + 1))
                  = cb[message[i]]
        /\ Len(decoded) <= Len(message)
        /\ decoded = SubSeq(message, 1, Len(decoded))
        /\ bits = SubSeq(cs, Offset(message, cb, Len(decoded) + 1) + 1, Len(cs))
        /\ bits # <<>> => Matches(cb, bits) = {message[Len(decoded) + 1]}
        /\ pc = "done" => (outcome = "returned" /\ decoded = message)

C9_Witness ==
    /\ EncodeReturned
    /\ pc = "decode"
    /\ Cardinality(DOMAIN frequency) >= 3
    /\ decoded # <<>>
    /\ bits # <<>>
    /\ \E c \in DOMAIN cb : Len(cb[c]) >= 2

\* C10: decode terminates. For every codebook, one with an empty code
\* included, and every finite bit sequence, each pass of decode's loop that
\* finds an entry leaves strictly fewer bits to decode.
C10_MatchShortensBits ==
    [][(pc = "decode" /\ decoded' # decoded) => Len(bits') < Len(bits)]_vars

====
